---- MODULE Spec2Model ----
(***************************************************************************)
(* Model of the Teleco Daisy client (custom_components/teleco_daisy).      *)
(*                                                                         *)
(* TelecoDaisy holds the session fields idAccount / idSession and offers   *)
(* async methods.  Calling an async method only creates a coroutine        *)
(* object; its body runs when somebody awaits it.  Every method body has   *)
(* exactly one suspension point, the POST of TelecoDaisy.post: the body    *)
(* builds its request from the fields as they are when it starts, posts,   *)
(* and runs to its return or raise when the response arrives.              *)
(*                                                                         *)
(* A Python value that may be None is modelled as a sequence: <<>> is      *)
(* None and <<v>> is the value v.                                          *)
(***************************************************************************)
EXTENDS Integers, Sequences, FiniteSets, TLC

VARIABLES
    idAccount,   \* TelecoDaisy.idAccount
    idSession,   \* TelecoDaisy.idSession
    coros,       \* the coroutine objects created so far, in creation order
    light,       \* the DaisyLight objects' fields
    cover,       \* the DaisyCover / DaisyShade objects' fields
    last,        \* outcome of the last synchronous device method call
    hub          \* DaisyHub: online, lights, covers (and the payload fetched)

vars == <<idAccount, idSession, coros, light, cover, last, hub>>

None == <<>>
Some(v) == <<v>>

----------------------------------------------------------------------------
(* Bounds of the model.                                                    *)

\* number of coroutine objects one behaviour may create
MaxCoros == 4
\* number of login calls
MaxLogins == 1
\* number of login calls of a client that only logs in, again and again
MaxRelogins == 3
\* number of direct feed_the_commands calls
MaxFeeds == 2
\* number of device method calls that reach feed_the_commands
MaxDevCalls == 1
\* number of calls made on a client that tasks share, and the number of
\* login calls among them
MaxTasks == 3
MaxSessions == 2
\* number of direct calls of a client that is also asked queries: so many
\* feed_the_commands calls and so many queries
MaxCalls == 1
\* number of async_fetch_entities calls
MaxFetches == 2

----------------------------------------------------------------------------
(* Data the environment supplies.                                          *)

\* the (idAccount, idSession) pairs the server hands out on login
Logins == { <<1, "s1">>, <<2, "s2">> }

\* DaisyInstallation: numeric id for queries, instCode for commands
Installations == { [idInstallation |-> 7, instCode |-> "IC7"] }

NoInst == [idInstallation |-> 0, instCode |-> ""]

\* ActionReference values the server hands out
Refs == { "ref1", "ref2" }

\* the command batch the caller of feed_the_commands passes directly
RawBatch == << [commandAction |-> "POWER", commandId |-> 146,
                commandParam |-> "ON", deviceCode |-> "1",
                idInstallationDevice |-> 101,
                lowlevelCommand |-> Some("CH1")] >>

\* a batch for another device
RawBatch2 == << [commandAction |-> "OPEN_STOP_CLOSE", commandId |-> 77,
                 commandParam |-> "CLOSE", deviceCode |-> "2",
                 idInstallationDevice |-> 102,
                 lowlevelCommand |-> Some("CH8")] >>

\* the batch of the n-th direct call: the calls go to the two devices in
\* turn
RawBatchFor(n) == IF n % 2 = 1 THEN RawBatch ELSE RawBatch2

\* Python values a caller may pass where the code expects a string
PyNone == [t |-> "None", s |-> "", n |-> 0]
PyStr(x) == [t |-> "str", s |-> x, n |-> 0]
PyInt(x) == [t |-> "int", s |-> "", n |-> x]

\* the record of a device method call: its arguments and what came of it
NoArgs == [rgb |-> None, brightness |-> None, percent |-> PyNone,
           stati |-> <<>>]

NoCall == [op |-> "", kind |-> "", dev |-> 0, args |-> NoArgs, exc |-> "",
           returned |-> FALSE, coro |-> 0]

----------------------------------------------------------------------------
(* Coroutine objects.                                                      *)

NoReq == [path |-> "", idInstallation |-> "", idSession |-> None,
          idAccount |-> None, id |-> "", commandsList |-> <<>>,
          idInstallationDevice |-> 0]

NoResp == [codEsito |-> "", idAccount |-> 0, idSession |-> "",
           MessageID |-> "", MessageText |-> "", ActionReference |-> "",
           nodeActive |-> None, valRisultato |-> <<>>]

NoResult == [tag |-> "none", success |-> "", coro |-> 0, exc |-> "",
             value |-> <<>>]

\* {"success": True | False | None}
Dict(s) == [NoResult EXCEPT !.tag = "dict", !.success = s]
\* a coroutine object, named by its index in coros
CoroObj(j) == [NoResult EXCEPT !.tag = "coroutine", !.coro = j]
\* a raised exception
Raised(e) == [NoResult EXCEPT !.tag = "exc", !.exc = e]
\* raise Exception(result): the exception carries the server's payload
RaisedWith(e, payload) == [Raised(e) EXCEPT !.value = <<payload>>]
\* the tuple login returns
Tuple(v) == [NoResult EXCEPT !.tag = "tuple", !.value = v]
\* any other value a query returns
Value(v) == [NoResult EXCEPT !.tag = "value", !.value = <<v>>]

\* status: the HTTP status of the response to the request of the coroutine
\* pc: "created"  the coroutine object exists, its body has not started
\*     "posted"   the body is suspended in post, the request is out
\*     "returned" / "raised"  the body has finished
\* held: the caller got the object back and can await it
\* device: for "status" the idInstallationDevice of the device asked about
\* sub:  for "feed" its own index, for "ack" the index of the submission the
\*       poll chain follows
NewCoro(kind, inst, cmds, ignore, ref, sub, held) ==
    [kind |-> kind, pc |-> "created", inst |-> inst, cmds |-> cmds,
     ignore_ack |-> ignore, ref |-> ref, sub |-> sub, held |-> held,
     device |-> 0, req |-> NoReq, status |-> 0, resp |-> NoResp, result |-> NoResult]

----------------------------------------------------------------------------
(* TelecoDaisy: the client.                                                *)

\* post: the request goes out and the coroutine is suspended until the
\* response arrives
post(c, path, data) ==
    [c EXCEPT !.pc = "posted", !.req = [data EXCEPT !.path = path]]

\* an HTTP response: its status and the JSON document in its body
Http(status, json) == [status |-> status, json |-> json]

\* post, from the response on: a status other than 200 is logged as a
\* warning (the raise is commented out) and the body is returned as the
\* result whatever the status; returns <<coroutine, result>>
post_json(c, response) ==
    <<[c EXCEPT !.status = response.status], response.json>>

\* login, up to its await of post
login_data(c, acc, ses) == NoReq

\* login forgetting the session when the server refuses the credentials
login_clears_on_failure(c, acc, ses, result) ==
    IF result.codEsito # "S"
    THEN <<None, None, [c EXCEPT !.pc = "raised", !.resp = result,
                                 !.result = RaisedWith("Exception", result)]>>
    ELSE <<Some(result.idAccount), Some(result.idSession),
           [c EXCEPT !.pc = "returned", !.resp = result,
                     !.result = Tuple(<<result.idAccount,
                                        result.idSession>>)]>>

\* login, from the response on; returns <<idAccount, idSession, coroutine>>
login(c, acc, ses, result) ==
    IF result.codEsito # "S"
    THEN <<acc, ses, [c EXCEPT !.pc = "raised", !.resp = result,
                               !.result = RaisedWith("Exception", result)]>>
    ELSE <<Some(result.idAccount), Some(result.idSession),
           [c EXCEPT !.pc = "returned", !.resp = result,
                     !.result = Tuple(<<result.idAccount,
                                        result.idSession>>)]>>

\* feed_the_commands, up to its await of post
feed_the_commands_data(c, acc, ses) ==
    [NoReq EXCEPT !.commandsList = c.cmds,
                  !.idInstallation = c.inst.instCode,
                  !.idSession = ses]

\* feed_the_commands polling for the acknowledgment of a rejected batch
feed_the_commands_unchecked(cs, i, result) ==
    LET c == [cs[i] EXCEPT !.resp = result] IN
    IF c.ignore_ack
    THEN [cs EXCEPT ![i] = [c EXCEPT !.pc = "returned",
                                     !.result = Dict("None")]]
    ELSE Append([cs EXCEPT ![i] = [c EXCEPT !.pc = "returned",
                                   !.result = CoroObj(Len(cs) + 1)]],
                NewCoro("ack", c.inst, <<>>, FALSE, result.ActionReference,
                        c.sub, TRUE))

\* feed_the_commands creating the poll before it looks at ignore_ack
feed_the_commands_always_ack(cs, i, result) ==
    LET c == [cs[i] EXCEPT !.resp = result] IN
    IF result.MessageID # "WS-000"
    THEN [cs EXCEPT ![i] = [c EXCEPT !.pc = "raised",
                                     !.result = RaisedWith("Exception", result)]]
    ELSE Append([cs EXCEPT ![i] = [c EXCEPT !.pc = "returned",
                                   !.result = IF c.ignore_ack
                                              THEN Dict("None")
                                              ELSE CoroObj(Len(cs) + 1)]],
                NewCoro("ack", c.inst, <<>>, FALSE, result.ActionReference,
                        c.sub, TRUE))

\* feed_the_commands keeping the reference to poll for in one place of the
\* client: the first reference handed out stays there
feed_the_commands_shared_ref(cs, i, result) ==
    LET c == [cs[i] EXCEPT !.resp = result]
        earlier == { k \in 1..Len(cs) :
                       /\ cs[k].kind = "feed" /\ cs[k].pc = "returned"
                       /\ cs[k].resp.ActionReference # "" }
        first == CHOOSE k \in earlier : \A j \in earlier : k <= j
    IN
    IF result.MessageID # "WS-000"
    THEN [cs EXCEPT ![i] = [c EXCEPT !.pc = "raised",
                                     !.result = RaisedWith("Exception", result)]]
    ELSE IF c.ignore_ack
    THEN [cs EXCEPT ![i] = [c EXCEPT !.pc = "returned",
                                     !.result = Dict("None")]]
    ELSE Append([cs EXCEPT ![i] = [c EXCEPT !.pc = "returned",
                                   !.result = CoroObj(Len(cs) + 1)]],
                NewCoro("ack", c.inst, <<>>, FALSE,
                        IF earlier = {} THEN result.ActionReference
                        ELSE cs[first].resp.ActionReference,
                        c.sub, TRUE))

\* feed_the_commands, from the response on; cs is the list of coroutine
\* objects, i the index of this one; returns the new list
feed_the_commands(cs, i, result) ==
    LET c == [cs[i] EXCEPT !.resp = result] IN
    IF result.MessageID # "WS-000"
    THEN [cs EXCEPT ![i] = [c EXCEPT !.pc = "raised",
                                     !.result = RaisedWith("Exception", result)]]
    ELSE IF c.ignore_ack
    THEN [cs EXCEPT ![i] = [c EXCEPT !.pc = "returned",
                                     !.result = Dict("None")]]
    \* return self._get_ack(...): the coroutine object is created and
    \* returned as the result, it is not awaited here
    ELSE Append([cs EXCEPT ![i] = [c EXCEPT !.pc = "returned",
                                   !.result = CoroObj(Len(cs) + 1)]],
                NewCoro("ack", c.inst, <<>>, FALSE, result.ActionReference,
                        c.sub, TRUE))

\* _get_ack naming the installation by its number
get_ack_data_numeric(c, acc, ses) ==
    [NoReq EXCEPT !.id = c.ref,
                  !.idInstallation = ToString(c.inst.idInstallation),
                  !.idSession = ses]

\* _get_ack, up to its await of post
get_ack_data(c, acc, ses) ==
    [NoReq EXCEPT !.id = c.ref,
                  !.idInstallation = c.inst.instCode,
                  !.idSession = ses]

\* _get_ack taking every text other than "RCV" for success
get_ack_any_text_ok(cs, i, result) ==
    LET c == [cs[i] EXCEPT !.resp = result] IN
    IF result.MessageID # "WS-300"
    THEN [cs EXCEPT ![i] = [c EXCEPT !.pc = "raised",
                                     !.result = Raised("AssertionError")]]
    ELSE IF result.MessageText = "RCV"
    THEN Append([cs EXCEPT ![i] = [c EXCEPT !.pc = "returned",
                                   !.result = CoroObj(Len(cs) + 1)]],
                NewCoro("ack", c.inst, <<>>, FALSE, c.ref, c.sub, TRUE))
    ELSE [cs EXCEPT ![i] = [c EXCEPT !.pc = "returned",
                                     !.result = Dict("True")]]

\* _get_ack without the check of the MessageID
get_ack_no_assert(cs, i, result) ==
    LET c == [cs[i] EXCEPT !.resp = result] IN
    IF result.MessageText = "RCV"
    THEN Append([cs EXCEPT ![i] = [c EXCEPT !.pc = "returned",
                                   !.result = CoroObj(Len(cs) + 1)]],
                NewCoro("ack", c.inst, <<>>, FALSE, c.ref, c.sub, TRUE))
    ELSE IF result.MessageText = "PROC"
    THEN [cs EXCEPT ![i] = [c EXCEPT !.pc = "returned",
                                     !.result = Dict("True")]]
    ELSE [cs EXCEPT ![i] = [c EXCEPT !.pc = "returned",
                                     !.result = Dict("False")]]

\* _get_ack, from the response on
get_ack(cs, i, result) ==
    LET c == [cs[i] EXCEPT !.resp = result] IN
    IF result.MessageID # "WS-300"
    THEN [cs EXCEPT ![i] = [c EXCEPT !.pc = "raised",
                                     !.result = Raised("AssertionError")]]
    ELSE IF result.MessageText = "RCV"
    \* sleep(0.5), then return self._get_ack(...): again a coroutine object
    THEN Append([cs EXCEPT ![i] = [c EXCEPT !.pc = "returned",
                                   !.result = CoroObj(Len(cs) + 1)]],
                NewCoro("ack", c.inst, <<>>, FALSE, c.ref, c.sub, TRUE))
    ELSE IF result.MessageText = "PROC"
    THEN [cs EXCEPT ![i] = [c EXCEPT !.pc = "returned",
                                     !.result = Dict("True")]]
    ELSE [cs EXCEPT ![i] = [c EXCEPT !.pc = "returned",
                                     !.result = Dict("False")]]

Path(kind) ==
    CASE kind = "login" -> "teleco/services/account-login"
      [] kind = "feed"  -> "teleco/services/tmate20/feedthecommands/"
      [] kind = "ack"   -> "teleco/services/tmate20/getackcommand/"

Data(c, acc, ses) ==
    CASE c.kind = "login" -> login_data(c, acc, ses)
      [] c.kind = "feed"  -> feed_the_commands_data(c, acc, ses)
      [] c.kind = "ack"   -> get_ack_data(c, acc, ses)

----------------------------------------------------------------------------
(* The responses the server may give.                                      *)

LoginResponses ==
    { [NoResp EXCEPT !.codEsito = "S", !.idAccount = l[1],
                     !.idSession = l[2]] : l \in Logins }
    \cup { [NoResp EXCEPT !.codEsito = "E"] }

FeedResponses ==
    { [NoResp EXCEPT !.MessageID = "WS-000", !.ActionReference = r] :
        r \in Refs }
    \cup { [NoResp EXCEPT !.MessageID = "WS-500"] }

AckResponses ==
    { [NoResp EXCEPT !.MessageID = "WS-300", !.MessageText = t] :
        t \in {"RCV", "PROC", "ERR"} }
    \cup { [NoResp EXCEPT !.MessageID = "WS-500", !.MessageText = t] :
        t \in {"RCV", "PROC"} }

\* the HTTP responses: every body with status 200, and some bodies with
\* status 500 (a server or gateway error whose body is still JSON).  post
\* treats the requests of all operations alike; the responses with status
\* 500 are drawn for login.
HttpResponses(bodies, failing) ==
    { Http(200, b) : b \in bodies } \cup { Http(500, b) : b \in failing }

LoginHttp ==
    HttpResponses(LoginResponses,
                  { r \in LoginResponses :
                      r.codEsito = "S" /\ r.idAccount = 1 })

FeedHttp == HttpResponses(FeedResponses, {})

AckHttp == HttpResponses(AckResponses, {})

----------------------------------------------------------------------------
(* The caller and the server.                                              *)

Idx == 1..Len(coros)

Count(kind) == Cardinality({ i \in Idx : coros[i].kind = kind })

\* a step that is not a device method call leaves the devices and the hub
\* alone; last describes the device method call made in the step, if any
NoDeviceCall ==
    /\ last' = NoCall
    /\ UNCHANGED <<light, cover, hub>>

\* started(c): the coroutine object c is awaited: its body starts, builds its
\* request from the session fields as they are now and suspends in post
started(c, acc, ses) == post(c, Path(c.kind), Data(c, acc, ses))

\* await api.login(email, password), at most n times in a behaviour
CallLoginUpTo(n) ==
    /\ Len(coros) < MaxCoros
    /\ Count("login") < n
    /\ coros' = Append(coros,
                       started(NewCoro("login", NoInst, <<>>, FALSE, "",
                                       0, TRUE),
                               idAccount, idSession))
    /\ UNCHANGED <<idAccount, idSession>>
    /\ NoDeviceCall

CallLogin == CallLoginUpTo(MaxLogins)

\* await api.feed_the_commands(installation, commandsList, ignore_ack), at
\* most n times in a behaviour
CallFeedUpTo(n) ==
    /\ Len(coros) < MaxCoros
    /\ Count("feed") < n
    /\ \E inst \in Installations, ig \in BOOLEAN :
         coros' = Append(coros,
                         started(NewCoro("feed", inst,
                                         RawBatchFor(Count("feed") + 1),
                                         ig, "",
                                         Len(coros) + 1, TRUE),
                                 idAccount, idSession))
    /\ UNCHANGED <<idAccount, idSession>>
    /\ NoDeviceCall

CallFeed == CallFeedUpTo(MaxFeeds)

\* the caller awaits a coroutine object that a method returned to it
Await(i) ==
    /\ coros[i].pc = "created"
    /\ coros[i].held
    /\ coros' = [coros EXCEPT ![i] = started(@, idAccount, idSession)]
    /\ UNCHANGED <<idAccount, idSession>>
    /\ NoDeviceCall

LoginRespond_keeps_account(i) ==
    /\ coros[i].kind = "login"
    /\ coros[i].pc = "posted"
    /\ \E response \in LoginHttp :
         LET p == post_json(coros[i], response)
             r == login(p[1], idAccount, idSession, p[2]) IN
         /\ idAccount' = IF idAccount = None THEN r[1] ELSE idAccount
         /\ idSession' = r[2]
         /\ coros' = [coros EXCEPT ![i] = r[3]]
    /\ NoDeviceCall

LoginRespond(i) ==
    /\ coros[i].kind = "login"
    /\ coros[i].pc = "posted"
    /\ \E response \in LoginHttp :
         LET p == post_json(coros[i], response)
             r == login(p[1], idAccount, idSession, p[2]) IN
         /\ idAccount' = r[1]
         /\ idSession' = r[2]
         /\ coros' = [coros EXCEPT ![i] = r[3]]
    /\ NoDeviceCall

FeedRespond(i) ==
    /\ coros[i].kind = "feed"
    /\ coros[i].pc = "posted"
    /\ \E response \in FeedHttp :
         LET p == post_json(coros[i], response)
             cs == feed_the_commands([coros EXCEPT ![i] = p[1]], i, p[2]) IN
         /\ Len(cs) <= MaxCoros
         /\ coros' = cs
    /\ UNCHANGED <<idAccount, idSession>>
    /\ NoDeviceCall

AckRespond(i) ==
    /\ coros[i].kind = "ack"
    /\ coros[i].pc = "posted"
    /\ \E response \in AckHttp :
         LET p == post_json(coros[i], response)
             cs == get_ack([coros EXCEPT ![i] = p[1]], i, p[2]) IN
         /\ Len(cs) <= MaxCoros
         /\ coros' = cs
    /\ UNCHANGED <<idAccount, idSession>>
    /\ NoDeviceCall

----------------------------------------------------------------------------
(* Formatting.                                                             *)

\* a key that a dict does not have (as opposed to a key holding None)
Absent == <<"", "absent">>

\* the number without the zero padding
Fmt03d_unpadded(n) == ToString(n)

\* f"{n:03d}"
Fmt03d(n) ==
    IF n < 0
    THEN (IF n > -10 THEN "-0" ELSE "-") \o ToString(0 - n)
    ELSE (IF n < 10 THEN "00" ELSE IF n < 100 THEN "0" ELSE "")
         \o ToString(n)

----------------------------------------------------------------------------
(* The devices: DaisyLight, DaisyCover, DaisyShade.                        *)

TheInst == CHOOSE inst \in Installations : TRUE

NewLight(type, index, iid) ==
    [cls |-> "DaisyLight", idDevicetype |-> type, deviceIndex |-> index,
     idInstallationDevice |-> iid, installation |-> TheInst,
     is_on |-> None, brightness |-> None, rgb |-> None]

NewCover(cls, type, index, iid) ==
    [cls |-> cls, idDevicetype |-> type, deviceIndex |-> index,
     idInstallationDevice |-> iid, installation |-> TheInst,
     position |-> None, is_closed |-> None]

\* what a device method did: the exception it raised ("" if none), the
\* object's fields afterwards, the feed_the_commands call it made (<<>> if
\* none, else <<[installation, commandsList]>>), and whether the coroutine
\* object of that call was returned to the caller
Outcome(exc, self, call, returned) ==
    [exc |-> exc, self |-> self, call |-> call, returned |-> returned]

Raises(exc, self) == Outcome(exc, self, <<>>, FALSE)

Feeds(self, cmds) ==
    Outcome("", self,
            << [installation |-> self.installation, commandsList |-> cmds] >>,
            TRUE)

\* the caller of a method that does not return what it called gets None
Dropped(o) == [o EXCEPT !.returned = FALSE]

DaisyCover_osc_map(k) ==
    CASE k = "open"  -> <<"OPEN", 94, "CH4">>
      [] k = "stop"  -> <<"STOP", 95, "CH7">>
      [] k = "close" -> <<"CLOSE", 96, "CH1">>

\* the shade using the table of the cover
DaisyShade_osc_map_of_cover(k) ==
    CASE k = "open"  -> <<"OPEN", 94, "CH4">>
      [] k = "stop"  -> <<"STOP", 95, "CH7">>
      [] k = "close" -> <<"CLOSE", 96, "CH1">>

DaisyShade_osc_map(k) ==
    CASE k = "open"  -> <<"OPEN", 75, "CH5">>
      [] k = "stop"  -> <<"STOP", 76, "CH7">>
      [] k = "close" -> <<"CLOSE", 77, "CH8">>

open_stop_close(self, k) ==
    LET e == IF self.cls = "DaisyShade" THEN DaisyShade_osc_map(k)
                                        ELSE DaisyCover_osc_map(k)
    IN Feeds(self, << [commandAction |-> "OPEN_STOP_CLOSE",
                       commandId |-> e[2],
                       commandParam |-> e[1],
                       deviceCode |-> ToString(self.deviceIndex),
                       idInstallationDevice |-> self.idInstallationDevice,
                       lowlevelCommand |-> Some(e[3])] >>)

percent_keys == { PyStr("33"), PyStr("66"), PyStr("100") }

percent_map(p) ==
    CASE p = PyStr("33")  -> <<"LEV2", 97, "CH2">>
      [] p = PyStr("66")  -> <<"LEV3", 98, "CH3">>
      [] p = PyStr("100") -> <<"LEV4", 99, "CH4">>

control_cover(self, percent) ==
    IF percent \notin percent_keys
    THEN Raises("KeyError", self)
    ELSE LET e == percent_map(percent)
         IN Feeds(self, << [commandAction |-> "LEVEL",
                            commandId |-> e[2],
                            commandParam |-> e[1],
                            deviceCode |-> ToString(self.deviceIndex),
                            idInstallationDevice |->
                                self.idInstallationDevice,
                            lowlevelCommand |-> Some(e[3])] >>)

open_cover(self, percent) ==
    IF percent = PyStr("100")
    THEN open_stop_close(self, "open")
    ELSE Dropped(control_cover(self, percent))

stop_cover(self) == Dropped(open_stop_close(self, "stop"))

close_cover(self) == Dropped(open_stop_close(self, "close"))

\* set_rgb_and_brightness with the upper brightness limit off by one
set_rgb_and_brightness_off_by_one(self, rgb, brightness) ==
    LET b == IF brightness = None
             THEN (IF self.brightness = None THEN 0 ELSE self.brightness[1])
             ELSE brightness[1]
        c == IF rgb = None
             THEN (IF self.rgb = None THEN <<255, 255, 255>> ELSE self.rgb[1])
             ELSE rgb[1]
    IN IF b < 0 \/ b > 101
       THEN Raises("ValueError", self)
       ELSE IF \E k \in 1..3 : c[k] < 0 \/ c[k] > 255
       THEN Raises("ValueError", self)
       ELSE Feeds(self, << [commandAction |-> "COLOR",
                            commandId |-> 137,
                            commandParam |->
                                "A" \o Fmt03d(b) \o "R" \o Fmt03d(c[1])
                                \o "G" \o Fmt03d(c[2]) \o "B" \o Fmt03d(c[3]),
                            deviceCode |-> ToString(self.deviceIndex),
                            idInstallationDevice |->
                                self.idInstallationDevice,
                            lowlevelCommand |-> Absent] >>)

set_rgb_and_brightness(self, rgb, brightness) ==
    LET b == IF brightness = None
             THEN (IF self.brightness = None THEN 0 ELSE self.brightness[1])
             ELSE brightness[1]
        c == IF rgb = None
             THEN (IF self.rgb = None THEN <<255, 255, 255>> ELSE self.rgb[1])
             ELSE rgb[1]
    IN IF b < 0 \/ b > 100
       THEN Raises("ValueError", self)
       ELSE IF \E k \in 1..3 : c[k] < 0 \/ c[k] > 255
       THEN Raises("ValueError", self)
       ELSE Feeds(self, << [commandAction |-> "COLOR",
                            commandId |-> 137,
                            commandParam |->
                                "A" \o Fmt03d(b) \o "R" \o Fmt03d(c[1])
                                \o "G" \o Fmt03d(c[2]) \o "B" \o Fmt03d(c[3]),
                            deviceCode |-> ToString(self.deviceIndex),
                            idInstallationDevice |->
                                self.idInstallationDevice,
                            lowlevelCommand |-> Absent] >>)

turn_on(self) ==
    IF self.idDevicetype \notin {21, 23}
    THEN Raises("UnboundLocalError", self)
    ELSE Feeds(self, << [commandAction |-> "POWER",
                         commandId |->
                             IF self.idDevicetype = 21 THEN 146 ELSE 138,
                         commandParam |-> "ON",
                         deviceCode |-> ToString(self.deviceIndex),
                         idInstallationDevice |-> self.idInstallationDevice,
                         lowlevelCommand |->
                             IF self.idDevicetype = 21 THEN Some("CH1")
                                                       ELSE None] >>)

turn_off(self) ==
    IF self.idDevicetype \notin {21, 23}
    THEN Raises("UnboundLocalError", self)
    ELSE Feeds(self, << [commandAction |-> "POWER",
                         commandId |->
                             IF self.idDevicetype = 21 THEN 147 ELSE 138,
                         commandParam |-> "OFF",
                         deviceCode |-> ToString(self.deviceIndex),
                         idInstallationDevice |-> self.idInstallationDevice,
                         lowlevelCommand |->
                             IF self.idDevicetype = 21 THEN Some("CH8")
                                                       ELSE None] >>)

----------------------------------------------------------------------------
(* Device method calls.                                                    *)

----------------------------------------------------------------------------
(* Decoding the status items: the loops of update_state.                   *)

\* DaisyStatus, the two fields the decoders read
Status(code, value) == [statusitemCode |-> code, statusValue |-> value]

\* s[a:b] for 0 <= a <= b: the characters a+1 .. b, as far as s has them
Slice(s, a, b) ==
    IF a >= Len(s) THEN ""
    ELSE SubSeq(s, a + 1, IF b < Len(s) THEN b ELSE Len(s))

Digits == <<"0", "1", "2", "3", "4", "5", "6", "7", "8", "9">>

IsDigit(ch) == \E k \in 1..10 : Digits[k] = ch

DigitValue(ch) == (CHOOSE k \in 1..10 : Digits[k] = ch) - 1

RECURSIVE Decimal(_)
\* the value of a string of decimal digits
Decimal(s) ==
    IF s = "" THEN 0
    ELSE 10 * Decimal(SubSeq(s, 1, Len(s) - 1))
         + DigitValue(SubSeq(s, Len(s), Len(s)))

\* int(s) for a string: an optional sign and at least one decimal digit,
\* anything else is a ValueError (ok FALSE).  The blanks and underscores
\* that int also accepts are not modelled.
int(s) ==
    LET signed == s # "" /\ SubSeq(s, 1, 1) \in {"-", "+"}
        digits == IF signed THEN SubSeq(s, 2, Len(s)) ELSE s
    IN IF digits = "" \/ \E k \in 1..Len(digits) :
                            ~IsDigit(SubSeq(digits, k, k))
       THEN [ok |-> FALSE, n |-> 0]
       ELSE [ok |-> TRUE,
             n |-> IF signed /\ SubSeq(s, 1, 1) = "-"
                   THEN 0 - Decimal(digits) ELSE Decimal(digits)]

\* a method that ended without raising and without a command
Done(self) == Raises("", self)

\* the loop body adding the reported brightness to the one held
light_status_additive(self, status) ==
    LET p == IF status.statusitemCode = "POWER"
             THEN [self EXCEPT !.is_on = Some(status.statusValue = "ON")]
             ELSE self
        val == status.statusValue
        b == int(Slice(val, 1, 4))
        r == int(Slice(val, 5, 8))
        g == int(Slice(val, 9, 12))
        bl == int(Slice(val, 13, 16))
        sum == IF p.brightness = None THEN b.n ELSE p.brightness[1] + b.n
    IN IF status.statusitemCode # "COLOR" THEN Done(p)
       ELSE IF ~b.ok THEN Raises("ValueError", p)
       ELSE IF ~(r.ok /\ g.ok /\ bl.ok)
       THEN Raises("ValueError", [p EXCEPT !.brightness = Some(sum)])
       ELSE Done([p EXCEPT !.brightness = Some(sum),
                           !.rgb = Some(<<r.n, g.n, bl.n>>)])

\* DaisyLight.update_state: the body of the loop, for one status
light_status(self, status) ==
    LET p == IF status.statusitemCode = "POWER"
             THEN [self EXCEPT !.is_on = Some(status.statusValue = "ON")]
             ELSE self
        val == status.statusValue
        b == int(Slice(val, 1, 4))
        r == int(Slice(val, 5, 8))
        g == int(Slice(val, 9, 12))
        bl == int(Slice(val, 13, 16))
    IN IF status.statusitemCode # "COLOR" THEN Done(p)
       ELSE IF ~b.ok THEN Raises("ValueError", p)
       ELSE IF ~(r.ok /\ g.ok /\ bl.ok)
       THEN Raises("ValueError", [p EXCEPT !.brightness = Some(b.n)])
       ELSE Done([p EXCEPT !.brightness = Some(b.n),
                           !.rgb = Some(<<r.n, g.n, bl.n>>)])

RECURSIVE light_statuses(_, _)
\* DaisyLight.update_state: the loop over the list of DaisyStatus; an
\* exception ends it
light_statuses(self, stati) ==
    IF stati = <<>> THEN Done(self)
    ELSE LET o == light_status(self, Head(stati)) IN
         IF o.exc # "" THEN o ELSE light_statuses(o.self, Tail(stati))

\* the loop body deriving is_closed from the level as well
cover_status_level_closes(self, status) ==
    LET p == IF status.statusitemCode = "OPEN_CLOSE"
             THEN [self EXCEPT !.is_closed =
                       IF status.statusValue = "CLOSE" THEN Some(TRUE)
                       ELSE IF status.statusValue = "OPEN" THEN Some(FALSE)
                       ELSE None]
             ELSE self
        n == int(status.statusValue)
    IN IF status.statusitemCode # "LEVEL" THEN Done(p)
       ELSE IF ~n.ok THEN Raises("ValueError", p)
       ELSE Done([p EXCEPT !.position = Some(n.n),
                           !.is_closed = Some(n.n = 0)])

\* DaisyCover.update_state and DaisyShade.update_state (the same text): the
\* body of the loop, for one status
cover_status(self, status) ==
    LET p == IF status.statusitemCode = "OPEN_CLOSE"
             THEN [self EXCEPT !.is_closed =
                       IF status.statusValue = "CLOSE" THEN Some(TRUE)
                       ELSE IF status.statusValue = "OPEN" THEN Some(FALSE)
                       ELSE None]
             ELSE self
        n == int(status.statusValue)
    IN IF status.statusitemCode # "LEVEL" THEN Done(p)
       ELSE IF ~n.ok THEN Raises("ValueError", p)
       ELSE Done([p EXCEPT !.position = Some(n.n)])

RECURSIVE cover_statuses(_, _)
\* DaisyCover.update_state / DaisyShade.update_state: the loop
cover_statuses(self, stati) ==
    IF stati = <<>> THEN Done(self)
    ELSE LET o == cover_status(self, Head(stati)) IN
         IF o.exc # "" THEN o ELSE cover_statuses(o.self, Tail(stati))

\* the arguments callers pass
\* (rgb, brightness): defaults, a valid pair, and each range left on each
\* side
ColorArgs == { <<None, None>>,
               <<Some(<<0, 128, 255>>), Some(40)>>,
               <<None, Some(-1)>>,
               <<Some(<<0, 128, 255>>), Some(101)>>,
               <<Some(<<0, 256, 0>>), Some(100)>>,
               <<Some(<<-1, 0, 0>>), None>> }
PercentArgs == { PyNone, PyStr("33"), PyStr("66"), PyStr("100"),
                 PyStr("50"), PyInt(33), PyInt(100) }

\* the step of a device method call whose outcome is o: the feed_the_commands
\* call it made, if any, is a new coroutine object
Called(op, kind, d, args, o) ==
    /\ o.call # <<>> =>
         /\ Len(coros) < MaxCoros
         /\ Count("feed") < MaxDevCalls
    /\ coros' = IF o.call = <<>> THEN coros
                ELSE Append(coros,
                            NewCoro("feed", o.call[1].installation,
                                    o.call[1].commandsList, FALSE, "",
                                    Len(coros) + 1, o.returned))
    /\ last' = [op |-> op, kind |-> kind, dev |-> d, args |-> args,
                exc |-> o.exc, returned |-> o.returned,
                coro |-> IF o.call = <<>> THEN 0 ELSE Len(coros) + 1]
    /\ UNCHANGED <<idAccount, idSession, hub>>

LightIds == DOMAIN light
CoverIds == DOMAIN cover

\* light.set_rgb_and_brightness(rgb, brightness) with arguments from args
LightSetColorFrom(d, args) ==
    \E a \in args :
        LET o == set_rgb_and_brightness(light[d], a[1], a[2]) IN
        /\ Called("set_rgb_and_brightness", "light", d,
                  [NoArgs EXCEPT !.rgb = a[1], !.brightness = a[2]], o)
        /\ light' = [light EXCEPT ![d] = o.self]
        /\ UNCHANGED cover

LightSetColor(d) == LightSetColorFrom(d, ColorArgs)

LightTurnOn(d) ==
    LET o == turn_on(light[d]) IN
    /\ Called("turn_on", "light", d, NoArgs, o)
    /\ light' = [light EXCEPT ![d] = o.self]
    /\ UNCHANGED cover

LightTurnOff(d) ==
    LET o == turn_off(light[d]) IN
    /\ Called("turn_off", "light", d, NoArgs, o)
    /\ light' = [light EXCEPT ![d] = o.self]
    /\ UNCHANGED cover

CoverOpen(d) ==
    \E p \in PercentArgs :
        LET o == open_cover(cover[d], p) IN
        /\ Called("open_cover", "cover", d, [NoArgs EXCEPT !.percent = p], o)
        /\ cover' = [cover EXCEPT ![d] = o.self]
        /\ UNCHANGED light

CoverStop(d) ==
    LET o == stop_cover(cover[d]) IN
    /\ Called("stop_cover", "cover", d, NoArgs, o)
    /\ cover' = [cover EXCEPT ![d] = o.self]
    /\ UNCHANGED light

CoverClose(d) ==
    LET o == close_cover(cover[d]) IN
    /\ Called("close_cover", "cover", d, NoArgs, o)
    /\ cover' = [cover EXCEPT ![d] = o.self]
    /\ UNCHANGED light

----------------------------------------------------------------------------
(* The directory: get_account_installation_list, get_room_list and         *)
(* DaisyHub.async_fetch_entities.                                          *)

OtherInst == [idInstallation |-> 8, instCode |-> "IC8"]

\* a device entry of a room-list payload
RawDevice(type, index, iid) ==
    [idDevicetype |-> type, deviceIndex |-> index,
     idInstallationDevice |-> iid]

\* a room entry of the payload, its devices given by their type codes
RawRoom(r, types) ==
    [idInstallationRoom |-> r,
     deviceList |-> [k \in 1..Len(types) |->
                        RawDevice(types[k], k, 100 * r + k)]]

\* the roomList payloads the server may answer with
RoomLists ==
    { <<>>,
      << RawRoom(1, <<21, 22, 23, 24, 99>>) >>,
      << RawRoom(1, <<99>>), RawRoom(2, <<22, 21>>) >>,
      << RawRoom(1, <<24>>), RawRoom(2, <<>>) >> }

InstallationLists == { <<>>, <<TheInst>>, <<TheInst, OtherInst>> }

QueryResponses(payloads) ==
    { [codEsito |-> "S", valRisultato |-> v] : v \in payloads }
    \cup { [codEsito |-> "E", valRisultato |-> <<>>] }

\* the class hierarchy: DaisyLight, DaisyCover and DaisyShade each derive
\* from DaisyDevice and from nothing else
isinstance(obj, cls) == obj.cls = cls \/ cls = "DaisyDevice"

\* the device objects get_room_list builds for one room's deviceList
RECURSIVE room_devices(_, _)
room_devices(deviceList, installation) ==
    IF deviceList = <<>> THEN <<>>
    ELSE LET device == Head(deviceList)
             rest == room_devices(Tail(deviceList), installation)
             t == device.idDevicetype
         IN IF t \in {21, 23}
            THEN << [NewLight(t, device.deviceIndex,
                              device.idInstallationDevice)
                     EXCEPT !.installation = installation] >> \o rest
            ELSE IF t = 22
            THEN << [NewCover("DaisyShade", t, device.deviceIndex,
                              device.idInstallationDevice)
                     EXCEPT !.installation = installation] >> \o rest
            ELSE IF t = 24
            THEN << [NewCover("DaisyCover", t, device.deviceIndex,
                              device.idInstallationDevice)
                     EXCEPT !.installation = installation] >> \o rest
            ELSE rest

get_room_list_unchecked(result, installation) ==
    [exc |-> "",
     rooms |-> [r \in 1..Len(result.valRisultato) |->
                   [idInstallationRoom |->
                        result.valRisultato[r].idInstallationRoom,
                    deviceList |->
                        room_devices(result.valRisultato[r].deviceList,
                                     installation)]]]

\* get_room_list, from the response on: the rooms, or a raise
get_room_list(result, installation) ==
    IF result.codEsito # "S"
    THEN [exc |-> "Exception", rooms |-> <<>>]
    ELSE [exc |-> "",
          rooms |-> [r \in 1..Len(result.valRisultato) |->
                        [idInstallationRoom |->
                             result.valRisultato[r].idInstallationRoom,
                         deviceList |->
                             room_devices(result.valRisultato[r].deviceList,
                                          installation)]]]

get_room_list_data(installation, acc, ses) ==
    [NoReq EXCEPT !.path = "teleco/services/room-list",
                  !.idSession = ses, !.idAccount = acc,
                  !.idInstallation = ToString(installation.idInstallation)]

\* get_account_installation_list, from the response on
get_account_installation_list(result) ==
    IF result.codEsito # "S"
    THEN [exc |-> "Exception", installations |-> <<>>]
    ELSE [exc |-> "", installations |-> result.valRisultato]

get_account_installation_list_data(acc, ses) ==
    [NoReq EXCEPT !.path = "teleco/services/account-installation-list",
                  !.idSession = ses, !.idAccount = acc]

----------------------------------------------------------------------------
(* The queries, called on the client directly: nodestatus                  *)
(* (get_installation_is_active), room-list, status-device-list and         *)
(* account-installation-list.                                              *)

QueryKinds == {"nodestatus", "rooms", "status", "installations"}

QueryPath(kind) ==
    CASE kind = "nodestatus"    -> "teleco/services/tmate20/nodestatus"
      [] kind = "rooms"         -> "teleco/services/room-list"
      [] kind = "status"        -> "teleco/services/status-device-list"
      [] kind = "installations" ->
             "teleco/services/account-installation-list"

\* get_installation_is_active, up to its await of post
get_installation_is_active_data(c, acc, ses) ==
    [NoReq EXCEPT !.idSession = ses,
                  !.idInstallation = ToString(c.inst.idInstallation)]

\* get_installation_is_active, from the response on: result["nodeActive"],
\* with no look at codEsito
get_installation_is_active(c, result) ==
    IF result.nodeActive = None
    THEN [c EXCEPT !.pc = "raised", !.resp = result,
                   !.result = Raised("KeyError")]
    ELSE [c EXCEPT !.pc = "returned", !.resp = result,
                   !.result = Value(result.nodeActive[1])]

\* status_device_list, up to its await of post
status_device_list_data(c, acc, ses) ==
    [NoReq EXCEPT !.idSession = ses, !.idAccount = acc,
                  !.idInstallation = ToString(c.inst.idInstallation),
                  !.idInstallationDevice = c.device]

\* status_device_list, from the response on
status_device_list(c, result) ==
    IF result.codEsito # "S"
    THEN [c EXCEPT !.pc = "raised", !.resp = result,
                   !.result = RaisedWith("Exception", result)]
    ELSE [c EXCEPT !.pc = "returned", !.resp = result,
                   !.result = Value(result.valRisultato)]

QueryData(c, acc, ses) ==
    CASE c.kind = "nodestatus" -> get_installation_is_active_data(c, acc, ses)
      [] c.kind = "rooms" -> get_room_list_data(c.inst, acc, ses)
      [] c.kind = "status" -> status_device_list_data(c, acc, ses)
      [] c.kind = "installations" ->
             get_account_installation_list_data(acc, ses)

\* a query coroutine, from the response on
QueryResult(c, result) ==
    CASE c.kind = "nodestatus" -> get_installation_is_active(c, result)
      [] c.kind = "status" -> status_device_list(c, result)
      [] c.kind = "rooms" ->
             LET r == get_room_list(result, c.inst) IN
             IF r.exc # ""
             THEN [c EXCEPT !.pc = "raised", !.resp = result,
                            !.result = RaisedWith(r.exc, result)]
             ELSE [c EXCEPT !.pc = "returned", !.resp = result,
                            !.result = Value(r.rooms)]
      [] c.kind = "installations" ->
             LET r == get_account_installation_list(result) IN
             IF r.exc # ""
             THEN [c EXCEPT !.pc = "raised", !.resp = result,
                            !.result = RaisedWith(r.exc, result)]
             ELSE [c EXCEPT !.pc = "returned", !.resp = result,
                            !.result = Value(r.installations)]

\* the bodies the server may answer a query with
QueryBodies(kind) ==
    CASE kind = "nodestatus" ->
             { [NoResp EXCEPT !.nodeActive = Some(b)] : b \in BOOLEAN }
             \cup { [NoResp EXCEPT !.codEsito = "E"] }
      [] kind = "rooms" ->
             { [NoResp EXCEPT !.codEsito = "S", !.valRisultato = v] :
                 v \in { l \in RoomLists : Len(l) <= 1 } }
             \cup { [NoResp EXCEPT !.codEsito = "E"] }
      [] kind = "status" ->
             { [NoResp EXCEPT !.codEsito = "S", !.valRisultato = v] :
                 v \in { << Status("POWER", "ON") >> } }
             \cup { [NoResp EXCEPT !.codEsito = "E"] }
      [] kind = "installations" ->
             { [NoResp EXCEPT !.codEsito = "S", !.valRisultato = v] :
                 v \in { l \in InstallationLists : Len(l) = 1 } }
             \cup { [NoResp EXCEPT !.codEsito = "E"] }

QueryCount == Cardinality({ i \in Idx : coros[i].kind \in QueryKinds })

\* await api.get_installation_is_active(installation) and the like
CallQuery ==
    /\ Len(coros) < MaxCoros
    /\ QueryCount < MaxCalls
    /\ \E kind \in QueryKinds, inst \in Installations :
         LET c == [NewCoro(kind, inst, <<>>, FALSE, "", 0, TRUE)
                   EXCEPT !.device = IF kind = "status" THEN 101 ELSE 0]
         IN coros' = Append(coros, post(c, QueryPath(kind),
                                        QueryData(c, idAccount, idSession)))
    /\ UNCHANGED <<idAccount, idSession>>
    /\ NoDeviceCall

QueryRespond_drops_session(i) ==
    /\ coros[i].kind \in QueryKinds
    /\ coros[i].pc = "posted"
    /\ \E response \in HttpResponses(QueryBodies(coros[i].kind), {}) :
         LET p == post_json(coros[i], response) IN
         /\ coros' = [coros EXCEPT ![i] = QueryResult(p[1], p[2])]
         /\ idSession' = IF p[2].codEsito # "S" THEN None ELSE idSession
    /\ UNCHANGED idAccount
    /\ NoDeviceCall

QueryRespond(i) ==
    /\ coros[i].kind \in QueryKinds
    /\ coros[i].pc = "posted"
    /\ \E response \in HttpResponses(QueryBodies(coros[i].kind), {}) :
         LET p == post_json(coros[i], response) IN
         coros' = [coros EXCEPT ![i] = QueryResult(p[1], p[2])]
    /\ UNCHANGED <<idAccount, idSession>>
    /\ NoDeviceCall

\* DaisyDevice.update_state: the coroutine object of status_device_list is
\* created and returned, it is not awaited
DaisyDevice_update_state(self) ==
    [NewCoro("status", self.installation, <<>>, FALSE, "", 0, FALSE)
     EXCEPT !.device = self.idInstallationDevice]

\* update_state of DaisyLight, DaisyCover and DaisyShade as a whole: stati is
\* the coroutine object, and "for status in stati" raises TypeError before
\* the loop has run once.  Nobody holds the coroutine object afterwards.
UpdateState(kind, d) ==
    /\ Len(coros) < MaxCoros
    /\ QueryCount < MaxCalls
    /\ coros' = Append(coros,
                       DaisyDevice_update_state(IF kind = "light"
                                                THEN light[d] ELSE cover[d]))
    /\ last' = [NoCall EXCEPT !.op = "update_state", !.kind = kind,
                              !.dev = d, !.exc = "TypeError",
                              !.coro = Len(coros) + 1]
    /\ UNCHANGED <<idAccount, idSession, light, cover, hub>>

\* the loops of async_fetch_entities over the rooms of one installation:
\* the lights and covers lists after appending the devices of rooms
RECURSIVE collect(_, _, _)
collect(devices, lights, covers) ==
    IF devices = <<>> THEN <<lights, covers>>
    ELSE LET device == Head(devices) IN
         IF isinstance(device, "DaisyLight")
         THEN collect(Tail(devices), Append(lights, device), covers)
         ELSE IF isinstance(device, "DaisyCover")
         THEN collect(Tail(devices), lights, Append(covers, device))
         ELSE collect(Tail(devices), lights, covers)

RECURSIVE all_devices(_)
all_devices(rooms) ==
    IF rooms = <<>> THEN <<>>
    ELSE Head(rooms).deviceList \o all_devices(Tail(rooms))

\* DaisyHub after construction.  pc, todo and req are the position of
\* async_fetch_entities; seen and built record, for the fetch at hand, the
\* payload device entries of the room lists received and the device objects
\* get_room_list returned for them; codes records the codEsito of each
\* response the fetch at hand received, and raised the exception the last
\* call of async_fetch_entities let through to its caller ("" for none)
NewHub ==
    [online |-> FALSE, lights |-> <<>>, covers |-> <<>>,
     pc |-> "idle", todo |-> <<>>, req |-> NoReq,
     seen |-> <<>>, built |-> <<>>, fetches |-> 0,
     codes |-> <<>>, raised |-> ""]

FetchStart_keeps_lists ==
    /\ hub.pc = "idle"
    /\ hub.fetches < MaxFetches
    /\ hub' = [hub EXCEPT
                 !.pc = "installations", !.todo = <<>>,
                 !.seen = <<>>, !.built = <<>>,
                 !.codes = <<>>, !.raised = "",
                 !.fetches = @ + 1,
                 !.req = get_account_installation_list_data(idAccount,
                                                            idSession)]
    /\ last' = NoCall
    /\ UNCHANGED <<idAccount, idSession, coros, light, cover>>

\* async_fetch_entities is called: the lists are emptied and the
\* installation list is requested
FetchStart ==
    /\ hub.pc = "idle"
    /\ hub.fetches < MaxFetches
    /\ hub' = [hub EXCEPT
                 !.lights = <<>>, !.covers = <<>>,
                 !.pc = "installations", !.todo = <<>>,
                 !.seen = <<>>, !.built = <<>>,
                 !.codes = <<>>, !.raised = "",
                 !.fetches = @ + 1,
                 !.req = get_account_installation_list_data(idAccount,
                                                            idSession)]
    /\ last' = NoCall
    /\ UNCHANGED <<idAccount, idSession, coros, light, cover>>

\* the except clause of async_fetch_entities: every Exception is caught and
\* logged, the hub goes offline and the call returns
async_fetch_entities_except(h, exc) ==
    [h EXCEPT !.online = FALSE, !.pc = "idle", !.todo = <<>>]

\* the installation list arrives
FetchInstallations ==
    /\ hub.pc = "installations"
    /\ \E result \in QueryResponses(InstallationLists) :
         LET r == get_account_installation_list(result)
             h == [hub EXCEPT !.codes = Append(@, result.codEsito)]
         IN
         hub' = IF r.exc # ""
                THEN async_fetch_entities_except(h, r.exc)
                ELSE IF r.installations = <<>>
                THEN [h EXCEPT !.online = TRUE, !.pc = "idle"]
                ELSE [h EXCEPT
                        !.pc = "rooms", !.todo = r.installations,
                        !.req = get_room_list_data(Head(r.installations),
                                                   idAccount, idSession)]
    /\ last' = NoCall
    /\ UNCHANGED <<idAccount, idSession, coros, light, cover>>

\* the room list of the installation at hand arrives
FetchRooms ==
    /\ hub.pc = "rooms"
    /\ \E result \in QueryResponses(RoomLists) :
         LET r == get_room_list(result, Head(hub.todo))
             h == [hub EXCEPT !.codes = Append(@, result.codEsito)]
             lc == collect(all_devices(r.rooms), hub.lights, hub.covers)
             rest == Tail(hub.todo)
         IN
         hub' = IF r.exc # ""
                THEN async_fetch_entities_except(h, r.exc)
                ELSE IF rest = <<>>
                THEN [h EXCEPT
                        !.lights = lc[1], !.covers = lc[2],
                        !.seen = @ \o all_devices(result.valRisultato),
                        !.built = @ \o all_devices(r.rooms),
                        !.online = TRUE, !.pc = "idle", !.todo = <<>>]
                ELSE [h EXCEPT
                        !.lights = lc[1], !.covers = lc[2],
                        !.seen = @ \o all_devices(result.valRisultato),
                        !.built = @ \o all_devices(r.rooms),
                        !.todo = rest,
                        !.req = get_room_list_data(Head(rest), idAccount,
                                                   idSession)]
    /\ last' = NoCall
    /\ UNCHANGED <<idAccount, idSession, coros, light, cover>>

----------------------------------------------------------------------------

Init ==
    /\ idAccount = None
    /\ idSession = None
    /\ coros = <<>>
    /\ light = << NewLight(21, 1, 101), NewLight(23, 3, 103) >>
    /\ cover = << NewCover("DaisyShade", 22, 2, 102),
                  NewCover("DaisyCover", 24, 4, 104) >>
    /\ last = NoCall
    /\ hub = NewHub

Next ==
    \/ CallLogin
    \/ CallFeed
    \/ \E i \in Idx : Await(i)
    \/ \E i \in Idx : LoginRespond(i)
    \/ \E i \in Idx : FeedRespond(i)
    \/ \E i \in Idx : AckRespond(i)

Spec == Init /\ [][Next]_vars

\* A client that only logs in: hub.login and test_connection may run any
\* number of times on one TelecoDaisy object.
NextLogin ==
    \/ CallLoginUpTo(MaxRelogins)
    \/ \E i \in Idx : LoginRespond(i)

SpecLogin == Init /\ [][NextLogin]_vars

\* Colours set and reported back: set_rgb_and_brightness encodes a brightness
\* and a colour into the commandParam of a COLOR command, and the server
\* reports the value a light was set to as the statusValue of its COLOR
\* status, which the loop of update_state decodes.
CodecBrightness == {0, 7, 40, 100}
CodecChannels == {0, 64, 255}
CodecArgs ==
    { <<Some(<<r, g, b>>), Some(a)>> :
        r \in CodecChannels, g \in CodecChannels, b \in CodecChannels,
        a \in CodecBrightness }

\* the COLOR status that reports the value of the last COLOR command is
\* decoded into the light the command was for
StatusEcho ==
    /\ last.op = "set_rgb_and_brightness"
    /\ last.coro # 0
    /\ LET st == Status("COLOR", coros[last.coro].cmds[1].commandParam)
           o == light_statuses(light[last.dev], <<st>>)
       IN /\ light' = [light EXCEPT ![last.dev] = o.self]
          /\ last' = [last EXCEPT !.op = "for status in stati",
                                  !.args.stati = <<st>>, !.exc = o.exc]
    /\ UNCHANGED <<idAccount, idSession, coros, cover, hub>>

\* light.set_rgb_and_brightness(rgb, brightness) with a valid colour
CodecSetColor(d) ==
    /\ Len(coros) < MaxCoros
    /\ Count("feed") < MaxDevCalls
    /\ LightSetColorFrom(d, CodecArgs)

NextCodec ==
    \/ \E d \in LightIds : CodecSetColor(d)
    \/ StatusEcho

SpecCodec == Init /\ [][NextCodec]_vars

\* The status lists the server reports.  ColorValues and LevelValues give,
\* for each statusValue used, the numbers it stands for.
MaxStati == 2

ColorValues == { <<"A050R255G000B000", 50, <<255, 0, 0>>>>,
                 <<"A100R000G128B255", 100, <<0, 128, 255>>>>,
                 <<"A007R064G064B064", 7, <<64, 64, 64>>>> }
LevelValues == { <<"33", 33>>, <<"66", 66>>, <<"100", 100>> }

\* what the server reports for a light; a light does not know LEVEL.  The
\* last item is a COLOR cut short after the brightness.
LightItems ==
    { Status("POWER", v) : v \in {"ON", "OFF"} }
    \cup { Status("COLOR", v[1]) : v \in ColorValues }
    \cup { Status("LEVEL", "33"), Status("COLOR", "A050R2") }

\* what the server reports for a cover; a cover does not know POWER.  The
\* last item is a LEVEL without a number.
CoverItems ==
    { Status("OPEN_CLOSE", v) : v \in {"CLOSE", "OPEN", "STOP"} }
    \cup { Status("LEVEL", v[1]) : v \in LevelValues }
    \cup { Status("POWER", "ON"), Status("LEVEL", "") }

StatusLists(items) == UNION { [1..n -> items] : n \in 0..MaxStati }

\* an entity polls the state of its own device only (light.py, update): a
\* behaviour follows the polls of one device
Polled(kind, d) == last = NoCall \/ (last.kind = kind /\ last.dev = d)

\* the loop of update_state run on a status list, for a light
DecodeLight(d) ==
    /\ Polled("light", d)
    /\ \E stati \in StatusLists(LightItems) :
         LET o == light_statuses(light[d], stati) IN
         /\ light' = [light EXCEPT ![d] = o.self]
         /\ last' = [NoCall EXCEPT !.op = "for status in stati", !.kind = "light",
                                   !.dev = d, !.exc = o.exc]
    /\ UNCHANGED <<idAccount, idSession, coros, cover, hub>>

\* the loop of update_state run on a status list, for a cover or a shade
DecodeCover(d) ==
    /\ Polled("cover", d)
    /\ \E stati \in StatusLists(CoverItems) :
         LET o == cover_statuses(cover[d], stati) IN
         /\ cover' = [cover EXCEPT ![d] = o.self]
         /\ last' = [NoCall EXCEPT !.op = "for status in stati", !.kind = "cover",
                                   !.dev = d, !.exc = o.exc]
    /\ UNCHANGED <<idAccount, idSession, coros, light, hub>>

NextStatus ==
    \/ \E d \in LightIds : DecodeLight(d)
    \/ \E d \in CoverIds : DecodeCover(d)

SpecStatus == Init /\ [][NextStatus]_vars

\* A client that has not logged in or one that has: the client of Init, or
\* the one Spec reaches from Init by one login call that the server accepts
\* (CallLogin, then LoginRespond).
InitClient ==
    \/ /\ idAccount = None
       /\ idSession = None
       /\ coros = <<>>
    \/ \E result \in { r \in LoginResponses : r.codEsito = "S" } :
          LET c == started(NewCoro("login", NoInst, <<>>, FALSE, "", 0,
                                   TRUE), None, None)
              p == post_json(c, Http(200, result))
              r == login(p[1], None, None, p[2])
          IN /\ idAccount = r[1]
             /\ idSession = r[2]
             /\ coros = <<r[3]>>

\* The devices' methods, called on the devices of Init.
InitDev ==
    /\ InitClient
    /\ light = << NewLight(21, 1, 101), NewLight(23, 3, 103) >>
    /\ cover = << NewCover("DaisyShade", 22, 2, 102),
                  NewCover("DaisyCover", 24, 4, 104) >>
    /\ last = NoCall
    /\ hub = NewHub

NextDev ==
    \/ \E i \in Idx : Await(i)
    \/ \E d \in LightIds : LightSetColor(d)
    \/ \E d \in LightIds : LightTurnOn(d)
    \/ \E d \in LightIds : LightTurnOff(d)
    \/ \E d \in CoverIds : CoverOpen(d)
    \/ \E d \in CoverIds : CoverStop(d)
    \/ \E d \in CoverIds : CoverClose(d)

SpecDev == InitDev /\ [][NextDev]_vars

\* Commands and queries on one client, and the devices polling their state,
\* by a caller that awaits each call before it makes the next one (as
\* test.py and DaisyHub do): no request is out when a call is made.
Quiet == \A i \in Idx : coros[i].pc # "posted"

NextQuery ==
    \/ Quiet /\ CallFeedUpTo(MaxCalls)
    \/ \E i \in Idx : Quiet /\ Await(i)
    \/ \E i \in Idx : FeedRespond(i)
    \/ \E i \in Idx : AckRespond(i)
    \/ Quiet /\ CallQuery
    \/ \E i \in Idx : QueryRespond(i)
    \/ \E d \in LightIds : Quiet /\ UpdateState("light", d)
    \/ \E d \in CoverIds : Quiet /\ UpdateState("cover", d)

SpecQuery == InitDev /\ [][NextQuery]_vars

\* A DaisyLight built directly: the dataclass takes any idDevicetype, while
\* get_room_list builds lights of the types 21 and 23 only.
AnyLightTypes == {21, 23, 24, 99}

InitLight ==
    /\ InitClient
    /\ \E t \in AnyLightTypes : light = << NewLight(t, 5, 105) >>
    /\ cover = <<>>
    /\ last = NoCall
    /\ hub = NewHub

NextLight ==
    \/ \E i \in Idx : Await(i)
    \/ \E d \in LightIds : LightSetColor(d)
    \/ \E d \in LightIds : LightTurnOn(d)
    \/ \E d \in LightIds : LightTurnOff(d)

SpecLight == InitLight /\ [][NextLight]_vars

\* One client shared by two tasks that run concurrently on the event loop:
\* one logs in again and again, the other makes queries and commands one
\* after another; each is suspended at its await of post while the other
\* runs.  At most MaxTasks calls are made.
Room == Len(coros) < MaxTasks

\* the second task has no request out
Between == \A i \in Idx : coros[i].kind # "login" => coros[i].pc # "posted"

NextSession ==
    \/ Room /\ CallLoginUpTo(MaxSessions)
    \/ \E i \in Idx : LoginRespond(i)
    \/ Room /\ Between /\ CallQuery
    \/ \E i \in Idx : QueryRespond(i)
    \/ Room /\ Between /\ CallFeedUpTo(MaxCalls)
    \/ \E i \in Idx : FeedRespond(i)
    \/ \E i \in Idx : Between /\ Await(i)
    \/ \E i \in Idx : AckRespond(i)

SpecSession == Init /\ [][NextSession]_vars

\* the hub fetching the directory, on a client that may or may not be
\* logged in
NextDir ==
    \/ CallLogin
    \/ \E i \in Idx : LoginRespond(i)
    \/ FetchStart
    \/ FetchInstallations
    \/ FetchRooms

SpecDir == Init /\ [][NextDir]_vars

----------------------------------------------------------------------------
(* Properties of the command dispatcher and the acknowledgment polls.      *)

IsFeed(i) == coros[i].kind = "feed"
IsAck(i) == coros[i].kind = "ack"
Finished(i) == coros[i].pc \in {"returned", "raised"}
Started(i) == coros[i].pc # "created"

\* the polls of the submission s: the _get_ack coroutines that follow it
AcksOf(s) == { j \in Idx : IsAck(j) /\ coros[j].sub = s }
\* the getackcommand requests sent for the submission s
Polls(s) == Cardinality({ j \in AcksOf(s) : Started(j) })
\* the answered polls of s
Answered(s) == { j \in AcksOf(s) : Finished(j) }
AnsweredRCV(s) ==
    { j \in Answered(s) : coros[j].resp.MessageID = "WS-300"
                          /\ coros[j].resp.MessageText = "RCV" }
AnsweredPROC(s) ==
    { j \in Answered(s) : coros[j].resp.MessageID = "WS-300"
                          /\ coros[j].resp.MessageText = "PROC" }

\* C1 (as claimed): every feedthecommands request that went out carries a
\* session, i.e. was built after a successful login had set idSession.
C1_NoCommandBeforeLogin ==
    \A i \in Idx :
        (IsFeed(i) /\ Started(i)) => coros[i].req.idSession # None

\* C2 (as claimed): a send without ignoreAck that was accepted and has ended,
\* all of whose answered polls fit "RCV ... RCV PROC", has the result
\* Succeeded and sent exactly (number of RCV answers) + 1 polls.
C2_SucceededAfterPolls ==
    \A i \in Idx :
        ( /\ IsFeed(i) /\ coros[i].pc = "returned" /\ ~coros[i].ignore_ack
          /\ Answered(i) = AnsweredRCV(i) \cup AnsweredPROC(i)
          /\ Cardinality(AnsweredPROC(i)) <= 1 )
        => ( /\ coros[i].result = Dict("True")
             /\ Cardinality(AnsweredPROC(i)) = 1
             /\ Polls(i) = Cardinality(AnsweredRCV(i)) + 1 )

\* What the code does instead: the polls of a submission form a chain that
\* the caller drives, one poll per await.  Every poll but the last created
\* one has been answered WS-300/"RCV", and a chain whose last poll was
\* answered "PROC" after k "RCV" answers has sent k + 1 polls.
PollChainSequential ==
    \A s \in Idx :
        IsFeed(s) =>
            /\ \A j, k \in AcksOf(s) : j < k => j \in AnsweredRCV(s)
            /\ AnsweredPROC(s) # {} =>
                  Polls(s) = Cardinality(AnsweredRCV(s)) + 1

\* C3 (as claimed): the polls of one submission are bounded: a poll that is
\* the PollLimit-th (or a later) one of its submission and is answered "RCV"
\* ends with TimeoutError instead of asking for another poll.
PollLimit == MaxCoros - 2
C3_PollLoopBounded ==
    \A i \in Idx :
        ( /\ IsAck(i) /\ Finished(i)
          /\ i \in AnsweredRCV(coros[i].sub)
          /\ Cardinality({ j \in AcksOf(coros[i].sub) : j <= i })
                 >= PollLimit )
        => coros[i].result = Raised("TimeoutError")

\* C4: a poll answered WS-300/"PROC" returns {"success": True}; a poll
\* answered WS-300 with a text other than "RCV" and "PROC" returns
\* {"success": False} (a value, nothing is raised); after either, no further
\* poll exists for that submission.
C4_TerminalResults ==
    \A i \in Idx :
        ( /\ IsAck(i) /\ Finished(i)
          /\ coros[i].resp.MessageID = "WS-300"
          /\ coros[i].resp.MessageText # "RCV" )
        => ( /\ coros[i].pc = "returned"
             /\ coros[i].result =
                  IF coros[i].resp.MessageText = "PROC"
                  THEN Dict("True") ELSE Dict("False")
             /\ \A j \in AcksOf(coros[i].sub) : j <= i )

C4_Witness ==
    /\ \E i \in Idx : /\ IsAck(i) /\ coros[i].result = Dict("True")
                      /\ coros[i].resp.MessageText = "PROC"
    /\ \E i \in Idx : /\ IsAck(i) /\ coros[i].result = Dict("False")
                      /\ coros[i].resp.MessageText = "ERR"

\* C5: a poll answered with a MessageID other than "WS-300" raises
\* (AssertionError), whatever its MessageText and its position in the poll
\* sequence; it produces no {"success": ...} result and no further poll.
C5_AckProtocolError ==
    \A i \in Idx :
        ( /\ IsAck(i) /\ Finished(i)
          /\ coros[i].resp.MessageID # "WS-300" )
        => ( /\ coros[i].pc = "raised"
             /\ coros[i].result = Raised("AssertionError")
             /\ \A j \in AcksOf(coros[i].sub) : j <= i )

C5_Witness ==
    \E i \in Idx :
        /\ IsAck(i) /\ coros[i].pc = "raised"
        /\ coros[i].resp.MessageID # "WS-300"
        /\ coros[i].resp.MessageText = "PROC"
        /\ AnsweredRCV(coros[i].sub) # {}

\* C6: a submission answered with a MessageID other than "WS-000" raises,
\* with and without ignore_ack; no coroutine follows it: neither a second
\* submission of the batch nor a poll of getackcommand.
C6_CommandError ==
    \A i \in Idx :
        ( /\ IsFeed(i) /\ Finished(i)
          /\ coros[i].resp.MessageID # "WS-000" )
        => ( /\ coros[i].pc = "raised"
             /\ coros[i].result = RaisedWith("Exception", coros[i].resp)
             /\ \A j \in Idx : coros[j].sub = coros[i].sub => j = i )

C6_Witness ==
    /\ \E i \in Idx : /\ IsFeed(i) /\ coros[i].pc = "raised"
                      /\ coros[i].ignore_ack
    /\ \E i \in Idx : /\ IsFeed(i) /\ coros[i].pc = "raised"
                      /\ ~coros[i].ignore_ack

\* C7: an accepted submission with ignore_ack returns {"success": None}
\* and no getackcommand poll exists for it.
C7_IgnoreAck ==
    \A i \in Idx :
        ( /\ IsFeed(i) /\ Finished(i) /\ coros[i].ignore_ack
          /\ coros[i].resp.MessageID = "WS-000" )
        => ( /\ coros[i].pc = "returned"
             /\ coros[i].result = Dict("None")
             /\ AcksOf(coros[i].sub) = {} )

C7_Witness ==
    \E i \in Idx :
        /\ IsFeed(i) /\ coros[i].ignore_ack
        /\ coros[i].resp.MessageID = "WS-000"
        /\ coros[i].result = Dict("None")

----------------------------------------------------------------------------
(* Properties of the directory fetch.                                      *)

RECURSIVE SelectTypes(_, _)
SelectTypes(devices, types) ==
    IF devices = <<>> THEN <<>>
    ELSE IF Head(devices).idDevicetype \in types
    THEN <<Head(devices).idInstallationDevice>>
         \o SelectTypes(Tail(devices), types)
    ELSE SelectTypes(Tail(devices), types)

RECURSIVE SelectClasses(_, _)
SelectClasses(devices, classes) ==
    IF devices = <<>> THEN <<>>
    ELSE IF Head(devices).cls \in classes
    THEN <<Head(devices).idInstallationDevice>>
         \o SelectClasses(Tail(devices), classes)
    ELSE SelectClasses(Tail(devices), classes)

\* the devices get_room_list returned are the payload's devices of type 21
\* and 23 as lights and those of type 22 and 24 as covers
RoomListClassifies ==
    /\ SelectClasses(hub.built, {"DaisyLight"})
         = SelectTypes(hub.seen, {21, 23})
    /\ SelectClasses(hub.built, {"DaisyCover", "DaisyShade"})
         = SelectTypes(hub.seen, {22, 24})
    /\ Len(hub.built) = Len(SelectTypes(hub.seen, {21, 22, 23, 24}))

\* C8 (as claimed): of the payload devices a fetch has received, those of
\* type 21 and 23 are the lights and those of type 22 and 24 the covers,
\* both in what get_room_list returned and in hub.lights / hub.covers.
C8_LightsAndCovers ==
    /\ RoomListClassifies
    /\ SelectClasses(hub.lights, {"DaisyLight"})
         = SelectTypes(hub.seen, {21, 23})
    /\ Len(hub.lights) = Len(SelectTypes(hub.seen, {21, 23}))
    /\ Len(hub.covers) = Len(SelectTypes(hub.seen, {22, 24}))

----------------------------------------------------------------------------
(* Properties of the device methods.                                       *)

\* the single command of the batch the last call handed to
\* feed_the_commands
LastCmd == coros[last.coro].cmds[1]

\* C9 (as claimed): open_cover with percent "100" and with percent None
\* hand feed_the_commands the variant's OPEN_STOP_CLOSE "open" command;
\* percent "33" gives LEVEL "LEV2" 97 "CH2", percent "66" gives LEVEL "LEV3"
\* 98 "CH3".
C9_OpenCommands ==
    last.op = "open_cover" =>
        LET p == last.args.percent
            c == cover[last.dev]
        IN /\ p \in {PyNone, PyStr("100")} =>
                /\ last.exc = "" /\ last.coro # 0
                /\ LastCmd.commandAction = "OPEN_STOP_CLOSE"
                /\ LastCmd.commandParam = "OPEN"
                /\ LastCmd.commandId = (IF c.idDevicetype = 22 THEN 75 ELSE 94)
                /\ LastCmd.lowlevelCommand =
                       (IF c.idDevicetype = 22 THEN Some("CH5")
                                               ELSE Some("CH4"))
           /\ p \in {PyStr("33"), PyStr("66")} =>
                /\ last.exc = "" /\ last.coro # 0
                /\ LastCmd.commandAction = "LEVEL"
                /\ <<LastCmd.commandParam, LastCmd.commandId,
                     LastCmd.lowlevelCommand>>
                   = (IF p = PyStr("33") THEN <<"LEV2", 97, Some("CH2")>>
                                         ELSE <<"LEV3", 98, Some("CH3")>>)

\* the arguments of the call l are out of range: a brightness outside 0..100
\* or an rgb channel outside 0..255 for set_rgb_and_brightness, a percent
\* that is none of None, 33, 66 and 100 for open_cover
OutOfRange(l) ==
    \/ /\ l.op = "set_rgb_and_brightness"
       /\ \/ /\ l.args.brightness # None
             /\ l.args.brightness[1] \notin 0..100
          \/ /\ l.args.rgb # None
             /\ \E k \in 1..3 : l.args.rgb[1][k] \notin 0..255
    \/ /\ l.op = "open_cover"
       /\ l.args.percent.t # "None"
       /\ l.args.percent.s \notin {"33", "66", "100"}
       /\ l.args.percent.n \notin {33, 66, 100}

\* C10: a set_rgb_and_brightness or open_cover call with an out-of-range
\* argument raises (ValueError, KeyError) without calling feed_the_commands:
\* no coroutine object is created, so no request can follow, and the
\* devices' fields and the client's session fields keep their values.
C10_RejectsBeforeRequest ==
    [][ (last' # NoCall /\ OutOfRange(last')) =>
            /\ last'.exc \in {"ValueError", "KeyError"}
            /\ last'.coro = 0
            /\ coros' = coros
            /\ light' = light /\ cover' = cover
            /\ idAccount' = idAccount /\ idSession' = idSession ]_vars

C10_Witness ==
    /\ last.op = "set_rgb_and_brightness"
    /\ OutOfRange(last)
    /\ last.exc = "ValueError"
    /\ idSession # None
    /\ \E i \in Idx : IsFeed(i) /\ coros[i].pc = "posted"

\* the same for a cover: open_cover("50"), open_cover(33) end in KeyError
C10_WitnessCover ==
    /\ last.op = "open_cover"
    /\ OutOfRange(last)
    /\ last.exc = "KeyError"

----------------------------------------------------------------------------
(* Properties of login.                                                    *)

\* C11: a login call sends one account-login request and nothing more (the
\* step that handles its response creates no further request and ends the
\* call).  If the response says codEsito "S", the fields idAccount and
\* idSession become the values of the response and the call returns that
\* pair; otherwise the call raises an Exception that carries the response
\* and both fields keep the values they had.
C11_LoginOutcome ==
    [][ \A i \in Idx :
          ( /\ coros[i].kind = "login" /\ coros[i].pc = "posted"
            /\ coros'[i] # coros[i] )
          => LET c == coros'[i] IN
             /\ Len(coros') = Len(coros)
             /\ c.req = coros[i].req
             /\ c.req.path = "teleco/services/account-login"
             /\ IF c.resp.codEsito = "S"
                THEN /\ c.pc = "returned"
                     /\ idAccount' = Some(c.resp.idAccount)
                     /\ idSession' = Some(c.resp.idSession)
                     /\ c.result = Tuple(<<c.resp.idAccount,
                                           c.resp.idSession>>)
                ELSE /\ c.pc = "raised"
                     /\ c.result.exc = "Exception"
                     /\ c.result.value = <<c.resp>>
                     /\ idAccount' = idAccount
                     /\ idSession' = idSession ]_vars

\* a login was accepted, a later login call was refused and the session of
\* the accepted one is still held; a third one was accepted as well
C11_Witness ==
    \E i, j, k \in Idx :
        /\ i # j /\ j # k /\ i # k
        /\ coros[i].kind = "login" /\ coros[i].pc = "returned"
        /\ coros[j].kind = "login" /\ coros[j].pc = "raised"
        /\ coros[k].kind = "login" /\ coros[k].pc = "returned"
        /\ coros[k].resp.idSession # coros[i].resp.idSession
        /\ idAccount = Some(coros[i].resp.idAccount)
        /\ idSession = Some(coros[i].resp.idSession)

----------------------------------------------------------------------------
(* Properties of the status decoding.                                      *)

\* C12: when the string that set_rgb_and_brightness encodes for a brightness
\* b in 0..100 and a colour c with channels in 0..255 is decoded by the COLOR
\* branch of DaisyLight.update_state, the decoding raises nothing and the
\* light's brightness is b and its rgb is c.
C12_RoundTrip ==
    ( /\ last.op = "for status in stati"
      /\ last.args.brightness # None /\ last.args.rgb # None
      /\ last.args.brightness[1] \in 0..100
      /\ \A k \in 1..3 : last.args.rgb[1][k] \in 0..255 )
    => /\ last.exc = ""
       /\ light[last.dev].brightness = last.args.brightness
       /\ light[last.dev].rgb = last.args.rgb

\* a one-digit brightness and channels of one, two and three digits have
\* made the round trip
C12_Witness ==
    /\ last.op = "for status in stati"
    /\ last.args.brightness = Some(7)
    /\ last.args.rgb = Some(<<0, 64, 255>>)
    /\ last.args.stati = << Status("COLOR", "A007R000G064B255") >>
    /\ light[last.dev].brightness = Some(7)
    /\ light[last.dev].rgb = Some(<<0, 64, 255>>)

\* the light d after the loop has run on the list stati
AfterLight(d, stati) == light_statuses(light[d], stati)
\* the cover d after the loop has run on the list stati
AfterCover(d, stati) == cover_statuses(cover[d], stati)

\* C13: decoding is idempotent.  Whatever state a device is in and whatever
\* the status list, running the loop on the list a second time leaves the
\* device in the state the first run left it in.
C13_Idempotent ==
    /\ \A d \in LightIds : \A stati \in StatusLists(LightItems) :
          light_statuses(AfterLight(d, stati).self, stati).self
              = AfterLight(d, stati).self
    /\ \A d \in CoverIds : \A stati \in StatusLists(CoverItems) :
          cover_statuses(AfterCover(d, stati).self, stati).self
              = AfterCover(d, stati).self

\* a shade that earlier polls left closed at level 33, after a poll whose
\* list ended in a LEVEL without a number
C13_Witness ==
    /\ last.op = "for status in stati" /\ last.kind = "cover"
    /\ last.exc = "ValueError"
    /\ cover[last.dev].cls = "DaisyShade"
    /\ cover[last.dev].is_closed = Some(TRUE)
    /\ cover[last.dev].position = Some(33)

\* the index of the last status of the list with the given code, 0 if none
LastOf(stati, code) ==
    LET ks == { k \in 1..Len(stati) : stati[k].statusitemCode = code } IN
    IF ks = {} THEN 0 ELSE CHOOSE k \in ks : \A j \in ks : j <= k

\* C19: a status list that is decoded without an error changes only the
\* fields its items name.  For a light: is_on becomes (value = "ON") of the
\* last POWER item and is kept if there is none; brightness and rgb become
\* the numbers of the last COLOR item ("A050R255G000B000" gives 50 and
\* (255, 0, 0)) and are kept if there is none.  For a cover or shade:
\* is_closed becomes True for CLOSE, False for OPEN and None for any other
\* value of the last OPEN_CLOSE item; position becomes the number of the
\* last LEVEL item.  No other field changes, so a list of items with other
\* codes leaves the device as it was.
C19_OnlyNamedFields ==
    /\ \A d \in LightIds : \A stati \in StatusLists(LightItems) :
          LET p == LastOf(stati, "POWER")
              c == LastOf(stati, "COLOR")
              v == CHOOSE v \in ColorValues : v[1] = stati[c].statusValue
          IN AfterLight(d, stati).exc = ""
             => AfterLight(d, stati).self =
                  [light[d] EXCEPT
                     !.is_on = IF p = 0 THEN @
                               ELSE Some(stati[p].statusValue = "ON"),
                     !.brightness = IF c = 0 THEN @ ELSE Some(v[2]),
                     !.rgb = IF c = 0 THEN @ ELSE Some(v[3])]
    /\ \A d \in CoverIds : \A stati \in StatusLists(CoverItems) :
          LET o == LastOf(stati, "OPEN_CLOSE")
              l == LastOf(stati, "LEVEL")
              v == CHOOSE v \in LevelValues : v[1] = stati[l].statusValue
          IN AfterCover(d, stati).exc = ""
             => AfterCover(d, stati).self =
                  [cover[d] EXCEPT
                     !.is_closed =
                         IF o = 0 THEN @
                         ELSE IF stati[o].statusValue = "CLOSE"
                         THEN Some(TRUE)
                         ELSE IF stati[o].statusValue = "OPEN"
                         THEN Some(FALSE)
                         ELSE None,
                     !.position = IF l = 0 THEN @ ELSE Some(v[2])]

\* a light whose polls have reported a colour and no power state yet
C19_Witness ==
    /\ last.op = "for status in stati" /\ last.kind = "light" /\ last.exc = ""
    /\ light[last.dev].is_on = None
    /\ light[last.dev].brightness = Some(50)
    /\ light[last.dev].rgb = Some(<<255, 0, 0>>)

----------------------------------------------------------------------------
(* Properties of the command tables.                                       *)

LightOps == {"turn_on", "turn_off", "set_rgb_and_brightness"}

\* C14 (as claimed): a turn_on, turn_off or set_rgb_and_brightness call on a
\* light whose idDevicetype is neither 21 nor 23 ends with an error and hands
\* no command to feed_the_commands.
C14_UnsupportedTypeFails ==
    ( /\ last.kind = "light" /\ last.op \in LightOps
      /\ light[last.dev].idDevicetype \notin {21, 23} )
    => (last.exc # "" /\ last.coro = 0)

\* the command id and the low-level channel the claim gives for a device
\* type and a method; "no channel" is a channel of None or no channel at all
LightTable(type, op) ==
    CASE type = 21 /\ op = "turn_on" ->
             [ids |-> {146, 40}, channels |-> {Some("CH1")}]
      [] type = 21 /\ op = "turn_off" ->
             [ids |-> {147, 41}, channels |-> {Some("CH8")}]
      [] type = 21 /\ op = "set_rgb_and_brightness" ->
             [ids |-> {146}, channels |-> {Some("CH1")}]
      [] type = 23 /\ op \in {"turn_on", "turn_off"} ->
             [ids |-> {138}, channels |-> {None, Absent}]
      [] type = 23 /\ op = "set_rgb_and_brightness" ->
             [ids |-> {137}, channels |-> {None, Absent}]

\* C15 (as claimed): every turn_on, turn_off or set_rgb_and_brightness call
\* that hands feed_the_commands a batch hands it a single command whose
\* commandId and lowlevelCommand are the table's entry for the type of the
\* light (21 or 23) and the method.
C15_LightCommandTable ==
    ( /\ last.kind = "light" /\ last.op \in LightOps /\ last.coro # 0
      /\ light[last.dev].idDevicetype \in {21, 23} )
    => /\ Len(coros[last.coro].cmds) = 1
       /\ LastCmd.commandId
            \in LightTable(light[last.dev].idDevicetype, last.op).ids
       /\ LastCmd.lowlevelCommand
            \in LightTable(light[last.dev].idDevicetype, last.op).channels

\* the (commandParam, commandId, lowlevelCommand) the claim gives for a
\* device type and a method
CoverTable(type, op) ==
    CASE type = 22 /\ op = "open_cover"  -> <<"OPEN", 75, Some("CH5")>>
      [] type = 22 /\ op = "stop_cover"  -> <<"STOP", 76, Some("CH7")>>
      [] type = 22 /\ op = "close_cover" -> <<"CLOSE", 77, Some("CH8")>>
      [] type = 24 /\ op = "open_cover"  -> <<"OPEN", 94, Some("CH4")>>
      [] type = 24 /\ op = "stop_cover"  -> <<"STOP", 95, Some("CH7")>>
      [] type = 24 /\ op = "close_cover" -> <<"CLOSE", 96, Some("CH1")>>

\* C16: on a device that get_room_list built for type 22 (a DaisyShade) or
\* type 24 (a DaisyCover), a full open (open_cover with "100"), stop_cover
\* and close_cover each hand feed_the_commands a batch of one
\* OPEN_STOP_CLOSE command whose parameter, id and channel are the table's
\* entry for the type, and which carries the device's own deviceIndex (as
\* deviceCode) and idInstallationDevice.
C16_CoverCommandTable ==
    ( \/ last.op \in {"stop_cover", "close_cover"}
      \/ (last.op = "open_cover" /\ last.args.percent = PyStr("100")) )
    => LET c == cover[last.dev] IN
       /\ last.exc = "" /\ last.coro # 0
       /\ Len(coros[last.coro].cmds) = 1
       /\ LastCmd.commandAction = "OPEN_STOP_CLOSE"
       /\ <<LastCmd.commandParam, LastCmd.commandId,
            LastCmd.lowlevelCommand>> = CoverTable(c.idDevicetype, last.op)
       /\ LastCmd.deviceCode = ToString(c.deviceIndex)
       /\ LastCmd.idInstallationDevice = c.idInstallationDevice

\* the shade has been told to close
C16_Witness ==
    /\ last.op = "close_cover"
    /\ cover[last.dev].idDevicetype = 22
    /\ cover[last.dev].cls = "DaisyShade"
    /\ last.coro # 0
    /\ LastCmd.commandParam = "CLOSE"
    /\ LastCmd.commandId = 77
    /\ LastCmd.deviceCode = "2"

----------------------------------------------------------------------------
(* Properties of post.                                                     *)

\* C17 (as claimed): an operation whose request was answered with an HTTP
\* status other than 200 ends with an error raised to its caller; the body
\* of such a response never yields a result.
C17_Non200Raises ==
    \A i \in Idx :
        (Finished(i) /\ coros[i].status # 200) => coros[i].pc = "raised"

----------------------------------------------------------------------------
(* Properties of concurrent commands.                                      *)

\* what a poll makes of a response: the exception, or the tag of its result
AckOutcome(resp) ==
    IF resp.MessageID # "WS-300" THEN "AssertionError"
    ELSE IF resp.MessageText = "RCV" THEN "next poll"
    ELSE IF resp.MessageText = "PROC" THEN "True"
    ELSE "False"

\* C18: with several commands in flight on one client, every poll belongs
\* to one submission and asks for the ActionReference that the response to
\* that submission carried; a finished poll's result is a function of the
\* response to that poll alone (a further poll it asks for stays with the
\* same submission and reference); and the step that handles one response
\* leaves every other coroutine, those of the other command included, as
\* it was.
C18_OwnPolls ==
    [][ /\ \A j \in 1..Len(coros') :
             coros'[j].kind = "ack" =>
               LET a == coros'[j]
                   s == a.sub
               IN /\ s \in 1..Len(coros') /\ coros'[s].kind = "feed"
                  /\ coros'[s].pc = "returned"
                  /\ a.ref = coros'[s].resp.ActionReference
                  /\ a.pc # "created" => a.req.id = a.ref
                  /\ a.pc \in {"returned", "raised"} =>
                       CASE AckOutcome(a.resp) = "AssertionError" ->
                              a.result = Raised("AssertionError")
                         [] AckOutcome(a.resp) = "next poll" ->
                              /\ a.result.tag = "coroutine"
                              /\ coros'[a.result.coro].kind = "ack"
                              /\ coros'[a.result.coro].sub = s
                              /\ coros'[a.result.coro].ref = a.ref
                         [] OTHER -> a.result = Dict(AckOutcome(a.resp))
        /\ \A i \in Idx :
             coros'[i] # coros[i] =>
               \A k \in Idx \ {i} : coros'[k] = coros[k]
      ]_vars

\* two commands for different devices got different references; the poll of
\* each has been answered, one with PROC and one with an error text
C18_Witness ==
    \E i, k \in Idx : \E j \in AcksOf(i) : \E l \in AcksOf(k) :
        /\ IsFeed(i) /\ IsFeed(k) /\ i # k
        /\ coros[i].cmds[1].idInstallationDevice
             # coros[k].cmds[1].idInstallationDevice
        /\ coros[i].resp.ActionReference # coros[k].resp.ActionReference
        /\ coros[j].req.id = coros[i].resp.ActionReference
        /\ coros[l].req.id = coros[k].resp.ActionReference
        /\ coros[j].result = Dict("True")
        /\ coros[l].result = Dict("False")

----------------------------------------------------------------------------
(* Properties of the requests.                                             *)

\* C20: every feedthecommands request and every getackcommand request names
\* the installation by its instCode, and every getackcommand request asks
\* for the ActionReference that the response to its submission carried;
\* every nodestatus, room-list and status-device-list request names the
\* installation by its numeric idInstallation.
C20_InstallationIds ==
    \A i \in Idx :
        Started(i) =>
          LET c == coros[i] IN
          /\ c.kind = "feed" =>
               /\ c.req.path = "teleco/services/tmate20/feedthecommands/"
               /\ c.req.idInstallation = c.inst.instCode
          /\ c.kind = "ack" =>
               /\ c.req.path = "teleco/services/tmate20/getackcommand/"
               /\ c.req.idInstallation = c.inst.instCode
               /\ c.inst = coros[c.sub].inst
               /\ c.req.id = coros[c.sub].resp.ActionReference
          /\ c.kind \in {"nodestatus", "rooms", "status"} =>
               /\ c.req.path = QueryPath(c.kind)
               /\ c.req.idInstallation = ToString(c.inst.idInstallation)

\* a poll and a status query have been sent
C20_Witness ==
    \E i, j \in Idx :
        /\ coros[i].kind = "ack" /\ Started(i)
        /\ coros[i].req.idInstallation = "IC7"
        /\ coros[i].req.id = "ref2"
        /\ coros[j].kind = "status" /\ Started(j)
        /\ coros[j].req.idInstallation = "7"
        /\ coros[j].req.idInstallationDevice = 101

\* update_state never gets as far as decoding: it raises TypeError, changes
\* no field, and the status-device-list request it meant to make is never
\* sent
UpdateStateRaises ==
    [][ last'.op = "update_state"
        => /\ last'.exc = "TypeError"
           /\ light' = light /\ cover' = cover
           /\ coros'[last'.coro].pc = "created"
           /\ ~coros'[last'.coro].held ]_vars

----------------------------------------------------------------------------
(* Properties of the hub's fetch.                                          *)

\* the fetch at hand has ended
FetchEnded == hub.pc = "idle" /\ hub.fetches > 0

\* every response the fetch at hand received carried codEsito "S"
AllS == \A k \in 1..Len(hub.codes) : hub.codes[k] = "S"

\* C21: an installation list, a room list and a device status list whose
\* response has a codEsito other than "S" raise Exception and return no data;
\* async_fetch_entities lets no exception through to its caller, and once a
\* fetch has ended hub.online is TRUE exactly if the installation list and
\* every room list of that fetch came with codEsito "S".
C21_QueryErrors ==
    /\ \A result \in QueryResponses(InstallationLists) :
         result.codEsito # "S" =>
           get_account_installation_list(result)
             = [exc |-> "Exception", installations |-> <<>>]
    /\ \A result \in QueryResponses(RoomLists), inst \in Installations :
         result.codEsito # "S" =>
           get_room_list(result, inst) = [exc |-> "Exception", rooms |-> <<>>]
    /\ \A result \in QueryBodies("status") :
         result.codEsito # "S" =>
           LET c == status_device_list(
                      NewCoro("status", TheInst, <<>>, FALSE, "", 0, TRUE),
                      result)
           IN c.pc = "raised" /\ c.result = RaisedWith("Exception", result)
    /\ hub.raised = ""
    /\ hub.pc # "idle" => AllS
    /\ FetchEnded =>
         /\ hub.codes # <<>>
         /\ hub.online <=> AllS

\* a fetch got the installation list and the first room list, and the second
\* room list came with an error code: the fetch has ended, the hub is
\* offline and keeps the devices of the first installation
C21_Witness ==
    /\ FetchEnded
    /\ hub.codes = <<"S", "S", "E">>
    /\ ~hub.online
    /\ hub.lights # <<>>

\* the device objects of devices that are instances of cls, in their order
RECURSIVE InstancesOf(_, _)
InstancesOf(devices, cls) ==
    IF devices = <<>> THEN <<>>
    ELSE IF isinstance(Head(devices), cls)
    THEN <<Head(devices)>> \o InstancesOf(Tail(devices), cls)
    ELSE InstancesOf(Tail(devices), cls)

\* C24: at every point of every fetch, and after it, hub.lights and
\* hub.covers hold the lights and the covers of the rooms that the most
\* recent call of async_fetch_entities has received so far, each once and in
\* the order the server listed them: nothing of an earlier fetch is left, and
\* a fetch that failed part-way keeps the devices of the room lists it
\* received before the failure.
C24_ListsOfLastFetch ==
    /\ hub.lights = InstancesOf(hub.built, "DaisyLight")
    /\ hub.covers = InstancesOf(hub.built, "DaisyCover")
    /\ hub.fetches = 0 => hub.lights = <<>> /\ hub.covers = <<>>

\* the second fetch of a hub failed at the room list of its second
\* installation: the lists hold the light and the cover of the first
\* installation's rooms, once each
C24_Witness ==
    /\ hub.fetches = 2
    /\ hub.pc = "idle"
    /\ hub.codes = <<"S", "S", "E">>
    /\ Len(hub.lights) = 2
    /\ Len(hub.covers) = 1
    /\ \A k \in 1..2 : hub.lights[k].installation = TheInst

----------------------------------------------------------------------------
(* Properties of the session fields.                                       *)

\* the login coroutines that returned
LoggedIn == { j \in Idx : coros[j].kind = "login" /\ coros[j].pc = "returned" }

\* C22: a step that changes idAccount or idSession is the step of a login
\* whose response carries codEsito "S"; every other step (a call being made
\* or awaited, the response to an installation list, a room list, a
\* nodestatus probe, a status query, a command submission or a poll, and the
\* response to a login that fails) leaves both fields as they were.
C22_OnlyLoginWrites ==
    [][ (idAccount' # idAccount \/ idSession' # idSession)
        => \E i \in Idx :
             /\ coros[i].kind = "login" /\ coros[i].pc = "posted"
             /\ coros'[i].pc = "returned"
             /\ coros'[i].resp.codEsito = "S"
             /\ idAccount' = Some(coros'[i].resp.idAccount)
             /\ idSession' = Some(coros'[i].resp.idSession)
             /\ \A k \in Idx \ {i} : coros'[k] = coros[k] ]_vars

\* a login has succeeded, another login has failed, a query has raised, and
\* the fields are those of the login that succeeded
C22_Witness ==
    \E i, j, k \in Idx :
        /\ coros[i].kind = "login" /\ coros[i].pc = "returned"
        /\ coros[j].kind = "login" /\ coros[j].pc = "raised"
        /\ coros[k].kind \in QueryKinds /\ coros[k].pc = "raised"
        /\ coros[k].req.idSession = Some(coros[i].resp.idSession)
        /\ idAccount = Some(coros[i].resp.idAccount)
        /\ idSession = Some(coros[i].resp.idSession)

\* the pairs the two fields may hold: that of the constructor and that of
\* each login that returned
SessionPairs ==
    { <<None, None>> }
    \cup { <<Some(coros[j].resp.idAccount), Some(coros[j].resp.idSession)>> :
             j \in LoggedIn }

\* C23: whatever the interleaving of logins with the other requests, the two
\* fields of the client are at every suspension point the pair of one login
\* that succeeded (or the pair of the constructor, before any has), and so
\* is the pair in every request that carries both; a request that carries
\* the session alone carries the session of such a pair.
C23_PairOfOneLogin ==
    /\ <<idAccount, idSession>> \in SessionPairs
    /\ \A i \in Idx :
         Started(i) =>
           /\ coros[i].kind \in {"rooms", "status", "installations"} =>
                <<coros[i].req.idAccount, coros[i].req.idSession>>
                  \in SessionPairs
           /\ coros[i].kind \in {"nodestatus", "feed", "ack"} =>
                coros[i].req.idSession \in { q[2] : q \in SessionPairs }

\* a request that carries both fields was built after one login and is still
\* out when a second login, with another pair, has replaced the fields
C23_Witness ==
    \E i, j, k \in Idx :
        /\ i \in LoggedIn /\ j \in LoggedIn
        /\ coros[i].resp.idAccount # coros[j].resp.idAccount
        /\ coros[i].resp.idSession # coros[j].resp.idSession
        /\ coros[k].kind \in {"rooms", "status", "installations"}
        /\ coros[k].pc = "posted"
        /\ coros[k].req.idAccount = Some(coros[i].resp.idAccount)
        /\ coros[k].req.idSession = Some(coros[i].resp.idSession)
        /\ idAccount = Some(coros[j].resp.idAccount)
        /\ idSession = Some(coros[j].resp.idSession)

====
